---- MODULE Spec2Model ----
(***************************************************************************)
(* State-machine model of the schedule-sync pipelines (sync.py,            *)
(* sync_nextcloud.py, sync_radicale.py): fetch of the remote index, login  *)
(* with bounded-retry clicks, extraction, normalisation into per-event     *)
(* .ics files, reconciliation against the index, and upload.               *)
(***************************************************************************)
EXTENDS Integers, Sequences, FiniteSets, TLC

VARIABLES
    variant,          \* which script runs: "sync" | "nextcloud" | "radicale"
    calendars,        \* names of the collections principal.calendars() lists
    remote,           \* target collection: resource name -> serialized VEVENT
    files,            \* individual_events/: file name (uid) -> serialized VEVENT
    pc,               \* position of main()
    existing_events,  \* keys of the dict returned by retrieve_existing_events
    schedule_data,    \* list returned by scrape_schedule
    ics_filenames,    \* list returned by create_individual_ics_files
    batch,            \* the events this run generated: file name -> VEVENT as written
    idx,              \* position of the upload loop in ics_filenames
    click,            \* which safe_click call of login_to_microsoft (1..3)
    attempt,          \* attempts made by the current safe_click call
    clickLog,         \* outcomes of the attempts of the current safe_click call
    err,              \* the exception that reached main()'s handler, if any
    nextUid,          \* source of fresh uuid4 values
    now,              \* clock read by datetime.utcnow()
    quits,            \* driver.quit() calls of the current run
    fetch,            \* how this run's retrieve_existing_events ended
    uploads,          \* upload attempts of this run: <<[name, outcome]>>
    hist,             \* record of the previous completed run
    page,             \* the document the browser rendered for scrape_schedule
    otc,              \* the one-time code typed: the time step it was made in and typed in
    arrival           \* how login_to_microsoft's wait for the redirection ended

vars == << variant, calendars, remote, files, pc, existing_events, schedule_data,
           batch, ics_filenames, idx, click, attempt, clickLog, err, nextUid, now, quits,
           fetch, uploads, hist, page, otc, arrival >>

----------------------------------------------------------------------------
(* Bounds of the model *)

MaxEvents == 4
MaxShifts == 2
MaxRemote == 1

(* Program constants *)

Retries == 5

TargetCalendar == "personal"
NoDetails == "No details available"
EasternOffset == 300

----------------------------------------------------------------------------
(* Generic helpers *)

RECURSIVE SeqsUpTo(_, _)
SeqsUpTo(S, n) ==
    IF n = 0 THEN { << >> }
    ELSE LET shorter == SeqsUpTo(S, n - 1)
         IN  shorter \cup { Append(s, x) : s \in { t \in shorter : Len(t) = n - 1 }, x \in S }

Range(s) == { s[i] : i \in DOMAIN s }

----------------------------------------------------------------------------
(* Calendar interchange text.  A VEVENT is a sequence of content lines; a  *)
(* line carries a property name and its value (num for date-times and the  *)
(* uid, text for the summary).  A summary text is kept as its two parts:   *)
(* the formatted clock range (empty when the variant writes none) and the  *)
(* detail words.                                                           *)

NoText == [range |-> << >>, details |-> << >>]

Line(name, num, text) == [name |-> name, num |-> num, text |-> text]

HasProp(comp, name) == \E i \in DOMAIN comp : comp[i].name = name

Prop(comp, name) == comp[CHOOSE i \in DOMAIN comp : comp[i].name = name]

\* Event.add(...) x5 followed by to_ical()
VEvent(summary, dtstart, dtend, uid, dtstamp) ==
    << Line("SUMMARY", 0, summary),
       Line("DTSTART", dtstart, NoText),
       Line("DTEND", dtend, NoText),
       Line("UID", uid, NoText),
       Line("DTSTAMP", dtstamp, NoText) >>

\* component.get('dtstart').dt / component.get('dtend').dt raise on a missing property
Parses(comp) == HasProp(comp, "DTSTART") /\ HasProp(comp, "DTEND")

\* component.get('summary') is None when the property is missing
NoneText == [range |-> << >>, details |-> << "<None>" >>]

SummaryOf(comp) == IF HasProp(comp, "SUMMARY") THEN Prop(comp, "SUMMARY").text ELSE NoneText

\* event_key = (dtstart, dtend, summary)
EventKeyOf(comp) ==
    << Prop(comp, "DTSTART").num, Prop(comp, "DTEND").num, SummaryOf(comp) >>

----------------------------------------------------------------------------
(* Rendered texts.  A date label is the list of its space-separated tokens *)
(* (date_str.split(' ')); a clock text is "<h>:<m> <ap>" (sp: whether the  *)
(* blank before AM/PM is there); a time-range text is the list of its      *)
(* '-'-separated clock texts, followed by an optional decimal length and   *)
(* an optional bracketed annotation.                                       *)

Weekdays == { "Mon", "Tue", "Wed", "Thu", "Fri", "Sat", "Sun" }
MonthStart == [ m \in { "Jan", "Feb" } |-> IF m = "Jan" THEN 0 ELSE 31 ]
DayNum == [ d \in { "06", "07" } |-> IF d = "06" THEN 6 ELSE 7 ]
Years == { "2025" }

Clock(h, m, ap, sp) == [h |-> h, m |-> m, ap |-> ap, sp |-> sp]

TimeText(parts, len, annot) == [parts |-> parts, len |-> len, annot |-> annot]

\* datetime.strptime(..., "%a %b %d %Y ...") on date_part[0..3]
DateOk(date) ==
    /\ Len(date) >= 4
    /\ date[1] \in Weekdays
    /\ date[2] \in DOMAIN MonthStart
    /\ date[3] \in DOMAIN DayNum
    /\ date[4] \in Years

DayIndex(date) == MonthStart[date[2]] + DayNum[date[3]]

\* "%I:%M %p"
ClockValid(c) == c.h \in 1..12 /\ c.m \in 0..59 /\ c.ap \in { "AM", "PM" } /\ c.sp

MinuteOfDay(c) == ((c.h % 12) + (IF c.ap = "PM" THEN 12 ELSE 0)) * 60 + c.m

\* local_tz.localize(datetime.strptime(...)): minutes since the start of the year, UTC
Localize(date, c) == DayIndex(date) * 1440 + MinuteOfDay(c) + EasternOffset

\* (\d{1,2}:\d{2}\s*[AP]M)
ClockLike(c) == c.h \in 0..99 /\ c.m \in 0..99 /\ c.ap \in { "AM", "PM" }

----------------------------------------------------------------------------
(* The rendered schedule document: days (li elements with a datetime       *)
(* attribute), each with its shift blocks.  A block may lack its time      *)
(* element or its details element.                                         *)

Block(wrapper, hasTime, time, hasDetails, details) ==
    [wrapper |-> wrapper, hasTime |-> hasTime, time |-> time,
     hasDetails |-> hasDetails, details |-> details]

Day(datetime, shifts) == [datetime |-> datetime, shifts |-> shifts]

Document(loaded, days) == [loaded |-> loaded, days |-> days]

RECURSIVE Flatten(_)
\* the (day, shift) pairs in the order the nested loops visit them
Flatten(days) ==
    IF days = << >> THEN << >>
    ELSE [ i \in 1..Len(days[1].shifts) |->
             [date |-> days[1].datetime, shift |-> days[1].shifts[i]] ]
         \o Flatten(Tail(days))

\* the class names of the wrapper element of a shift block as the page marks
\* it up for the three scripts, and those of the alternative markup
ShiftMarkup == { "scheduleEntityWrapper", "scheduleEntity", "interactive", "shift-wrapper" }
PositionMarkup == { "shiftPosition" }

\* day.find_elements(By.CSS_SELECTOR, ...): whether the selector of the variant
\* matches an element with these class names
Selects(v, classes) ==
    CASE v = "sync"      -> { "scheduleEntity", "interactive", "shift-wrapper" } \subseteq classes
      [] v = "radicale"  -> "scheduleEntityWrapper" \in classes
      [] v = "nextcloud" -> "scheduleEntityWrapper" \in classes \/ "shiftPosition" \in classes

RECURSIVE Selected(_, _)
\* the cells whose shift block the selector of the variant matches
Selected(v, cells) ==
    IF cells = << >> THEN << >>
    ELSE (IF Selects(v, Head(cells).shift.wrapper) THEN << Head(cells) >> ELSE << >>)
         \o Selected(v, Tail(cells))

GmtTokens == { "GMT-0500", "GMT-0400" }

RECURSIVE CutGmt(_)
\* day.get_attribute("datetime").split(' GMT')[0]
CutGmt(label) ==
    IF label = << >> \/ Head(label) \in GmtTokens THEN << >>
    ELSE << Head(label) >> \o CutGmt(Tail(label))

\* re.sub(r'\s*\[.*?\]', '', time_range)
StripAnnotation(time) == [time EXCEPT !.annot = ""]

\* sync.py scrape_schedule: no handler at all
ScrapeSync(doc) ==
    LET cells == Selected("sync", Flatten(doc.days))
        bad   == \E i \in DOMAIN cells : ~cells[i].shift.hasTime \/ ~cells[i].shift.hasDetails
    IN  IF ~doc.loaded \/ bad
        THEN [raised |-> TRUE, data |-> << >>]
        ELSE [raised |-> FALSE,
              data |-> [ i \in DOMAIN cells |->
                           [date |-> CutGmt(cells[i].date),
                            time_range |-> StripAnnotation(cells[i].shift.time),
                            details |-> cells[i].shift.details] ]]

\* sync_radicale.py scrape_schedule: the handlers name TimeoutException and
\* traceback, which the module never imports, so every failure leaves the call
ScrapeRadicale(doc) ==
    LET cells == Selected("radicale", Flatten(doc.days))
        bad   == \E i \in DOMAIN cells : ~cells[i].shift.hasTime \/ ~cells[i].shift.hasDetails
    IN  IF ~doc.loaded \/ bad
        THEN [raised |-> TRUE, data |-> << >>]
        ELSE [raised |-> FALSE,
              data |-> [ i \in DOMAIN cells |->
                           [date |-> cells[i].date,
                            time_range |-> StripAnnotation(cells[i].shift.time),
                            details |-> cells[i].shift.details] ]]

\* re.search(r'(\d{1,2}:\d{2}\s*[AP]M)\s*-\s*(\d{1,2}:\d{2}\s*[AP]M)\s*(\d+\.\d+)?', ...)
MatchAt(time) ==
    { i \in 1..(Len(time.parts) - 1) : ClockLike(time.parts[i]) /\ ClockLike(time.parts[i + 1]) }

FirstMatch(time) == CHOOSE i \in MatchAt(time) : \A j \in MatchAt(time) : i <= j

RECURSIVE ScrapeShifts(_, _, _)
\* sync_nextcloud.py scrape_schedule, the two loops with seen_shifts
ScrapeShifts(cells, seen, acc) ==
    IF cells = << >> THEN acc
    ELSE LET c == Head(cells)
             s == c.shift
         IN  IF ~s.hasTime \/ MatchAt(s.time) = {}
             THEN ScrapeShifts(Tail(cells), seen, acc)
             ELSE LET i   == FirstMatch(s.time)
                      len == IF i + 1 = Len(s.time.parts) THEN s.time.len ELSE ""
                      det == IF s.hasDetails THEN s.details ELSE NoDetails
                      key == << c.date, s.time.parts[i], s.time.parts[i + 1], det, len >>
                  IN  IF key \in seen
                      THEN ScrapeShifts(Tail(cells), seen, acc)
                      ELSE ScrapeShifts(Tail(cells), seen \cup { key },
                               Append(acc, [date |-> c.date,
                                            start_time |-> s.time.parts[i],
                                            end_time |-> s.time.parts[i + 1],
                                            details |-> det,
                                            shift_length |-> len]))

ScrapeNextcloud(doc) ==
    IF ~doc.loaded
    THEN [raised |-> FALSE, data |-> << >>]
    ELSE [raised |-> FALSE, data |-> ScrapeShifts(Selected("nextcloud", Flatten(doc.days)), {}, << >>)]

scrape_schedule(v, doc) ==
    CASE v = "sync"      -> ScrapeSync(doc)
      [] v = "radicale"  -> ScrapeRadicale(doc)
      [] v = "nextcloud" -> ScrapeNextcloud(doc)

----------------------------------------------------------------------------
(* Normalisation: one VEVENT per scraped entry *)

\* sync.py / sync_radicale.py create_icalendar_event: whether it returns
EntryOkPlain(entry) ==
    /\ DateOk(entry.date)
    /\ Len(entry.time_range.parts) >= 2
    /\ ClockValid(entry.time_range.parts[1])
    /\ ClockValid(entry.time_range.parts[2])
    /\ (Len(entry.time_range.parts) = 2 => entry.time_range.len = "")

EventPlain(entry, uid, t) ==
    VEvent([range |-> << >>, details |-> << entry.details >>],
           Localize(entry.date, entry.time_range.parts[1]),
           Localize(entry.date, entry.time_range.parts[2]),
           uid, t)

\* sync_nextcloud.py create_icalendar_event: whether it returns
EntryOkNextcloud(entry) ==
    /\ DateOk(entry.date)
    /\ ClockValid(entry.start_time)
    /\ ClockValid(entry.end_time)

EventNextcloud(entry, uid, t) ==
    LET details == IF entry.details = NoDetails
                   THEN (IF entry.shift_length # "" THEN << entry.shift_length, "hrs" >> ELSE << >>)
                   ELSE (IF entry.details # "" THEN << entry.details >> ELSE << >>)
    IN  VEvent([range |-> << MinuteOfDay(entry.start_time), MinuteOfDay(entry.end_time) >>,
                details |-> details],
               Localize(entry.date, entry.start_time),
               Localize(entry.date, entry.end_time),
               uid, t)

EntryOk(v, entry) == IF v = "nextcloud" THEN EntryOkNextcloud(entry) ELSE EntryOkPlain(entry)

\* variant of the uid source that hands out one fixed value
StaleUid(next) == 1

\* uuid.uuid4(): a value never produced before
FreshUid(next) == next

create_icalendar_event(v, entry, uid, t) ==
    IF v = "nextcloud" THEN EventNextcloud(entry, uid, t) ELSE EventPlain(entry, uid, t)

RECURSIVE CreateFiles(_, _, _)
\* create_individual_ics_files: the loop over schedule_data.  st carries the
\* directory, the list of names, the uid source, the clock and whether an
\* exception left the loop (only sync_nextcloud.py catches per entry)
CreateFiles(v, entries, st) ==
    IF entries = << >> \/ st.raised THEN st
    ELSE LET e == Head(entries)
         IN  IF ~EntryOk(v, e)
             THEN IF v = "nextcloud"
                  THEN CreateFiles(v, Tail(entries), st)
                  ELSE [st EXCEPT !.raised = TRUE]
             ELSE LET uid == FreshUid(st.uid)
                      ev  == create_icalendar_event(v, e, uid, st.t)
                  IN  CreateFiles(v, Tail(entries),
                          [st EXCEPT !.files = (uid :> ev) @@ @,
                                     !.names = Append(@, uid),
                                     !.uid = st.uid + 1,
                                     !.t = @ + 1])

----------------------------------------------------------------------------
(* Reconciliation and the remote store *)

\* new_event_dtstart == existing_event_dtstart and new_event_dtend == ... and
\* new_event_summary == existing_event_summary
Matches(comp, key) ==
    /\ Prop(comp, "DTSTART").num = key[1]
    /\ Prop(comp, "DTEND").num = key[2]
    /\ SummaryOf(comp) = key[3]

\* variant of compare_and_handle_existing that never removes a file
CompareRemovesNothing(names, fs, index) == fs

\* variant of compare_and_handle_existing that stops at the first match of the run
CompareFirstMatchOnly(names, fs, index) ==
    LET hit  == { i \in DOMAIN names : \E k \in index : Matches(fs[names[i]], k) }
        gone == IF hit = {} THEN {} ELSE { names[CHOOSE i \in hit : \A j \in hit : i <= j] }
    IN  [ n \in (DOMAIN fs) \ gone |-> fs[n] ]

\* variant of compare_and_handle_existing that walks the whole directory
CompareWholeDirectory(names, fs, index) ==
    LET gone == { n \in DOMAIN fs : \E k \in index : Matches(fs[n], k) }
    IN  [ n \in (DOMAIN fs) \ gone |-> fs[n] ]

\* compare_and_handle_existing: os.remove of every listed file with a matching key
compare_and_handle_existing(names, fs, index) ==
    LET gone == { n \in Range(names) : \E k \in index : Matches(fs[n], k) }
    IN  [ n \in (DOMAIN fs) \ gone |-> fs[n] ]

\* requests.put(URL + basename) / calendar.add_event: the resource named by
\* the uid holds the uploaded text afterwards
Put(store, name, data) ==
    [ n \in (DOMAIN store) \cup { name } |-> IF n = name THEN data ELSE store[n] ]

\* the keys of the events of a set of resources
KeysOf(store, names) == { EventKeyOf(store[n]) : n \in { m \in names : Parses(store[m]) } }

\* variant of the comparison that keeps the letter case
CaseSensitive(name) == name

\* str.lower() on the collection names in use
Lower(name) ==
    CASE name = "Personal" -> "personal"
      [] name = "PERSONAL" -> "personal"
      [] name = "Work"     -> "work"
      [] name = "Birthdays" -> "birthdays"
      [] OTHER -> name

\* calendar.name.lower() == 'personal'.lower(), first in listing order
FindCalendar(cals) ==
    LET hits == { i \in DOMAIN cals : Lower(cals[i]) = Lower(TargetCalendar) }
    IN  IF hits = {} THEN 0 ELSE CHOOSE i \in hits : \A j \in hits : i <= j

RECURSIVE UploadFindFrom(_, _)
\* upload_to_nextcloud_individual_files: for cal in principal.calendars(): if
\* cal.name.lower() == 'personal'.lower(): calendar = cal; break
UploadFindFrom(cals, i) ==
    IF i > Len(cals) THEN 0
    ELSE IF Lower(cals[i]) = Lower(TargetCalendar) THEN i
    ELSE UploadFindFrom(cals, i + 1)

\* the collection the upload works on (0: calendar is None)
UploadCalendar(cals) == UploadFindFrom(cals, 1)

----------------------------------------------------------------------------
(* Inputs of a run *)

DateLabel == << "Mon", "Jan", "06", "2025", "00:00:00", "GMT-0500" >>

NineToFive == TimeText(<< Clock(9, 0, "AM", TRUE), Clock(5, 0, "PM", TRUE) >>, "", "")
OneToSix == TimeText(<< Clock(1, 0, "PM", TRUE), Clock(6, 0, "PM", TRUE) >>, "", "")

BlockA == Block(ShiftMarkup, TRUE, NineToFive, TRUE, "Front Desk")
BlockB == Block(ShiftMarkup, TRUE, OneToSix, TRUE, "Stock Room")

PipelineBlocks == { BlockA, BlockB }

\* the documents a run may find: the list never appears, or one day of shifts
Documents ==
    { Document(FALSE, << >>) } \cup
    { Document(TRUE, << Day(DateLabel, sh) >>) : sh \in SeqsUpTo(PipelineBlocks, MaxShifts) }

\* documents with malformed parts: a shift block under the alternative markup,
\* one without its time element, one whose time text is no range, one that
\* ends after midnight; a date label of three tokens; a second day
ShortLabel == << "Mon", "Jan", "06" >>
NextLabel == << "Tue", "Jan", "07", "2025", "00:00:00", "GMT-0500" >>

TenToSix == TimeText(<< Clock(10, 0, "PM", TRUE), Clock(6, 0, "AM", TRUE) >>, "", "")
NineOnly == TimeText(<< Clock(9, 0, "AM", TRUE) >>, "", "")

BlockAPosition == Block(PositionMarkup, TRUE, NineToFive, TRUE, "Front Desk")
BlockNoTime == Block(ShiftMarkup, FALSE, NineToFive, TRUE, "Front Desk")
BlockNoRange == Block(ShiftMarkup, TRUE, NineOnly, TRUE, "Training")
BlockNight == Block(ShiftMarkup, TRUE, TenToSix, TRUE, "Night Desk")

RichBlocks == { BlockA, BlockAPosition, BlockNoTime, BlockNoRange, BlockNight }

RichDocuments ==
    { Document(FALSE, << >>) } \cup
    { Document(TRUE, << Day(DateLabel, << a >>) >>) : a \in RichBlocks } \cup
    { Document(TRUE, << Day(DateLabel, << a, b >>) >>) : a, b \in RichBlocks } \cup
    { Document(TRUE, << Day(l, << a >>), Day(NextLabel, << BlockB >>) >>) :
          l \in { DateLabel, ShortLabel }, a \in RichBlocks }

CalendarListings == { << "Work", "Personal", "Birthdays" >>, << "Work", "Birthdays" >> }

RichListings == CalendarListings \cup { << "Birthdays", "PERSONAL", "Personal" >> }

\* what the store may hold before the first run: an event an earlier run
\* uploaded for shift A, and an event without DTEND entered by hand
PoolNames == { 1, 2 }

Pool(v) ==
    [ n \in PoolNames |->
        IF n = 1
        THEN create_icalendar_event(v, scrape_schedule(v, Document(TRUE, << Day(DateLabel, << BlockA >>) >>)).data[1], 1, 0)
        ELSE << Line("SUMMARY", 0, [range |-> << >>, details |-> << "Holiday" >>]),
                Line("DTSTART", 0, NoText),
                Line("UID", 2, NoText) >> ]

InitialRemotes(v) ==
    { [ n \in S |-> Pool(v)[n] ] : S \in { T \in SUBSET PoolNames : Cardinality(T) <= MaxRemote } }

\* the first uid a run generates
FirstUid == Cardinality(PoolNames) + 1

NoErr == [kind |-> "none", locator |-> "", attempts |-> 0]

NoHist == [valid |-> FALSE, schedule |-> << >>, index |-> {}, published |-> {}]

Locator(c) == IF c = 3 THEN "idSubmit_SAOTCC_Continue" ELSE "idSIButton9"

\* no document rendered yet
NoPage == Document(FALSE, << >>)

\* no code typed yet
NoOtc == [typed |-> FALSE, made |-> 0, entered |-> 0]

----------------------------------------------------------------------------
(* The state machine *)

Init ==
    /\ variant \in { "sync", "nextcloud", "radicale" }
    /\ calendars \in (IF variant = "nextcloud" THEN CalendarListings ELSE { << >> })
    /\ remote \in InitialRemotes(variant)
    /\ files = << >>
    /\ pc = "idle"
    /\ existing_events = {}
    /\ schedule_data = << >>
    /\ ics_filenames = << >>
    /\ batch = << >>
    /\ idx = 0
    /\ click = 0
    /\ attempt = 0
    /\ clickLog = << >>
    /\ err = NoErr
    /\ nextUid = FirstUid
    /\ now = 1
    /\ quits = 0
    /\ fetch = "none"
    /\ uploads = << >>
    /\ hist = NoHist
    /\ page = NoPage
    /\ otc = NoOtc
    /\ arrival = "none"

\* variant of main() without its finally clause: the exception ends the process
RaiseEndsProcess(kind, locator, attempts) ==
    /\ pc' = "idle"
    /\ err' = [kind |-> kind, locator |-> locator, attempts |-> attempts]

\* variant of main() whose stages go on after an exception
RaiseAndGoOn(kind, locator, attempts) ==
    /\ pc' = "scrape"
    /\ err' = [kind |-> kind, locator |-> locator, attempts |-> attempts]

\* an exception reaches main()'s except clause; finally follows
Raise(kind, locator, attempts) ==
    /\ pc' = "finally"
    /\ err' = [kind |-> kind, locator |-> locator, attempts |-> attempts]

\* main() is entered (webdriver.Chrome(...) constructed); runs start as long as
\* the events generated so far leave room for a full batch
StartRun ==
    /\ pc = "idle"
    /\ (nextUid - FirstUid) + MaxShifts <= MaxEvents
    /\ pc' = IF variant = "sync" THEN "login_user" ELSE "fetch"
    /\ quits' = 0
    /\ UNCHANGED << batch, variant, calendars, remote, files, existing_events, schedule_data,
                    ics_filenames, idx, click, attempt, clickLog, err, nextUid, now,
                    fetch, uploads, hist, page, otc, arrival >>

\* sync_radicale.py retrieve_existing_events
FetchRadicale ==
    /\ pc = "fetch" /\ variant = "radicale"
    /\ \E resp \in { "exception", "error", "200", "207" } :
       \E failing \in { F \in SUBSET DOMAIN remote : Cardinality(F) <= 1 } :
          LET got == IF resp = "207" THEN (DOMAIN remote) \ failing ELSE DOMAIN remote
          IN  /\ (resp # "207") => failing = {}
              /\ CASE resp = "exception" ->
                         /\ Raise("transport", "", 0)
                         /\ fetch' = "raised"
                         /\ UNCHANGED existing_events
                   [] resp = "error" ->
                         /\ existing_events' = {}
                         /\ fetch' = "error_status"
                         /\ pc' = "login_user"
                         /\ UNCHANGED err
                   [] OTHER ->
                         IF \E n \in got : ~Parses(remote[n])
                         THEN /\ Raise("parse", "", 0)
                              /\ fetch' = "raised"
                              /\ UNCHANGED existing_events
                         ELSE /\ existing_events' = KeysOf(remote, got)
                              /\ fetch' = IF failing = {} THEN "ok" ELSE "partial"
                              /\ pc' = "login_user"
                              /\ UNCHANGED err
    /\ UNCHANGED << batch, variant, calendars, remote, files, schedule_data, ics_filenames, idx,
                    click, attempt, clickLog, nextUid, now, quits, uploads, hist, page, otc, arrival >>

\* sync_nextcloud.py retrieve_existing_events
FetchNextcloud ==
    /\ pc = "fetch" /\ variant = "nextcloud"
    /\ \E resp \in { "exception", "ok" } :
          IF resp = "exception"
          THEN /\ Raise("transport", "", 0)
               /\ fetch' = "raised"
               /\ UNCHANGED existing_events
          ELSE /\ existing_events' = IF FindCalendar(calendars) = 0 THEN {}
                                     ELSE KeysOf(remote, DOMAIN remote)
               /\ fetch' = IF FindCalendar(calendars) = 0 THEN "no_calendar" ELSE "ok"
               /\ pc' = "login_user"
               /\ UNCHANGED err
    /\ UNCHANGED << batch, variant, calendars, remote, files, schedule_data, ics_filenames, idx,
                    click, attempt, clickLog, nextUid, now, quits, uploads, hist, page, otc, arrival >>

\* login_to_microsoft up to the first safe_click: driver.get, wait for loginfmt
LoginUser ==
    /\ pc = "login_user"
    /\ \E ok \in BOOLEAN :
          IF ok
          THEN /\ pc' = "click" /\ click' = 1 /\ attempt' = 0 /\ clickLog' = << >>
               /\ UNCHANGED err
          ELSE /\ Raise("timeout", "loginfmt", 0)
               /\ UNCHANGED << click, attempt, clickLog >>
    /\ UNCHANGED << batch, variant, calendars, remote, files, existing_events, schedule_data,
                    ics_filenames, idx, nextUid, now, quits, fetch, uploads, hist, page, otc, arrival >>

AfterClick(c) == CASE c = 1 -> "login_pass" [] c = 2 -> "login_totp" [] OTHER -> "login_redirect"

\* one iteration of safe_click's loop; the raise after the loop belongs to the
\* last failed iteration.  The handler reads driver.current_url, which may raise
SafeClickAttempt ==
    /\ pc = "click"
    /\ attempt < Retries
    /\ \E outcome \in { "clicked", "failed", "failed_diag" } :
          /\ attempt' = attempt + 1
          /\ clickLog' = Append(clickLog, outcome)
          /\ CASE outcome = "clicked" ->
                     /\ pc' = AfterClick(click)
                     /\ UNCHANGED err
               [] outcome = "failed_diag" ->
                     Raise("diagnostic", Locator(click), attempt + 1)
               [] OTHER ->
                     IF attempt + 1 = Retries
                     THEN Raise("exhausted", Locator(click), Retries)
                     ELSE UNCHANGED << pc, err >>
    /\ UNCHANGED << batch, variant, calendars, remote, files, existing_events, schedule_data,
                    ics_filenames, idx, click, nextUid, now, quits, fetch, uploads,
                    hist, page, otc, arrival >>

\* wait for passwd, click it, type the password
LoginPassword ==
    /\ pc = "login_pass"
    /\ \E ok \in BOOLEAN :
          IF ok
          THEN /\ pc' = "click" /\ click' = 2 /\ attempt' = 0 /\ clickLog' = << >>
               /\ UNCHANGED err
          ELSE /\ Raise("timeout", "passwd", 0)
               /\ UNCHANGED << click, attempt, clickLog >>
    /\ UNCHANGED << batch, variant, calendars, remote, files, existing_events, schedule_data,
                    ics_filenames, idx, nextUid, now, quits, fetch, uploads, hist, page, otc, arrival >>

\* code = totp.now(); WebDriverWait(driver, 20) for the otc field; send_keys(code).
\* The wait lasts up to 20 s of a 30 s time step: it ends in the step the code
\* was made in (elapsed 0) or in the next one (elapsed 1), or it times out
LoginTotp ==
    /\ pc = "login_totp"
    /\ \E wait \in { "same_step", "next_step", "timeout" } :
          IF wait # "timeout"
          THEN /\ pc' = "click" /\ click' = 3 /\ attempt' = 0 /\ clickLog' = << >>
               /\ otc' = [typed |-> TRUE, made |-> 0,
                          entered |-> IF wait = "next_step" THEN 1 ELSE 0]
               /\ UNCHANGED err
          ELSE /\ Raise("timeout", "otc", 0)
               /\ UNCHANGED << click, attempt, clickLog, otc >>
    /\ UNCHANGED << batch, variant, calendars, remote, files, existing_events, schedule_data,
                    ics_filenames, idx, nextUid, now, quits, fetch, uploads, hist, page, arrival >>

\* variant of the login that raises when the fallback navigation does not arrive
RaisesWhenLost(outcome) == outcome \in { "raised", "fallback_lost" }

\* whether login_to_microsoft raises: only when a call of the fallback branch
\* itself raises (driver.get, log_page_details, driver.current_url)
RedirectRaises(outcome) == outcome = "raised"

\* what the wait and the fallback came to, as the log reports it
ArrivalOf(outcome) ==
    CASE outcome = "fallback_lost" -> "lost"
      [] outcome = "raised" -> "none"
      [] OTHER -> "arrived"

\* the wait for the redirection and the fallback navigation; the submitted
\* code is spent
LoginRedirect ==
    /\ pc = "login_redirect"
    /\ \E outcome \in { "redirected", "fallback_arrived", "fallback_lost", "raised" } :
          /\ arrival' = ArrivalOf(outcome)
          /\ IF RedirectRaises(outcome)
             THEN Raise("webdriver", "", 0)
             ELSE pc' = "scrape" /\ UNCHANGED err
    /\ click' = 0 /\ attempt' = 0 /\ clickLog' = << >>
    /\ otc' = NoOtc
    /\ UNCHANGED << batch, variant, calendars, remote, files, existing_events, schedule_data,
                    ics_filenames, idx, nextUid, now, quits, fetch, uploads, hist, page >>

\* scrape_schedule(driver) on the document the browser renders
ScrapeFrom(docs) ==
    /\ pc = "scrape"
    /\ \E doc \in docs :
          LET r == scrape_schedule(variant, doc)
          IN  /\ page' = doc
              /\ IF r.raised
                 THEN Raise("scrape", "", 0) /\ UNCHANGED schedule_data
                 ELSE schedule_data' = r.data /\ pc' = "create" /\ UNCHANGED err
    /\ UNCHANGED << batch, variant, calendars, remote, files, existing_events, ics_filenames, idx,
                    click, attempt, clickLog, nextUid, now, quits, fetch, uploads,
                    hist, otc, arrival >>

Scrape == ScrapeFrom(Documents)

\* create_individual_ics_files(schedule_data)
Create ==
    /\ pc = "create"
    /\ LET st == CreateFiles(variant, schedule_data,
                     [files |-> files, names |-> << >>, uid |-> nextUid, t |-> now,
                      raised |-> FALSE])
       IN  /\ files' = st.files
           /\ batch' = [ n \in Range(st.names) |-> st.files[n] ]
           /\ nextUid' = st.uid
           /\ now' = st.t
           /\ IF st.raised
              THEN Raise("normalize", "", 0) /\ UNCHANGED << ics_filenames, idx >>
              ELSE /\ ics_filenames' = st.names
                   /\ idx' = 1
                   /\ pc' = IF variant = "sync" THEN "upload" ELSE "compare"
                   /\ UNCHANGED err
    /\ UNCHANGED << variant, calendars, remote, existing_events, schedule_data, click,
                    attempt, clickLog, quits, fetch, uploads, hist, page, otc, arrival >>

\* compare_and_handle_existing(ics_filenames, existing_events)
Compare ==
    /\ pc = "compare"
    /\ files' = compare_and_handle_existing(ics_filenames, files, existing_events)
    /\ pc' = IF variant = "nextcloud" THEN "upload_open" ELSE "upload"
    /\ UNCHANGED << batch, variant, calendars, remote, existing_events, schedule_data,
                    ics_filenames, idx, click, attempt, clickLog, err, nextUid, now,
                    quits, fetch, uploads, hist, page, otc, arrival >>

\* sync_nextcloud.py upload_to_nextcloud_individual_files up to its loop
UploadOpen ==
    /\ pc = "upload_open"
    /\ \E resp \in { "exception", "ok" } :
          IF resp = "exception"
          THEN Raise("transport", "", 0)
          ELSE /\ pc' = IF UploadCalendar(calendars) = 0 THEN "finally" ELSE "upload"
               /\ UNCHANGED err
    /\ UNCHANGED << batch, variant, calendars, remote, files, existing_events, schedule_data,
                    ics_filenames, idx, click, attempt, clickLog, nextUid, now,
                    quits, fetch, uploads, hist, page, otc, arrival >>

\* whether the upload loop sends the file (os.path.exists; sync.py does not ask)
Sends(v, name, fs) == v = "sync" \/ name \in DOMAIN fs

\* whether the upload loop survives an exception of the transport
CatchesUploadError(v) == v = "nextcloud"

\* one iteration of the upload loop
UploadStep ==
    /\ pc = "upload"
    /\ idx <= Len(ics_filenames)
    /\ LET name == ics_filenames[idx]
       IN  IF ~Sends(variant, name, files)
           THEN /\ idx' = idx + 1
                /\ UNCHANGED << pc, err, remote, uploads >>
           ELSE \E outcome \in { "created", "rejected", "exception" } :
                   /\ uploads' = Append(uploads, [name |-> name, outcome |-> outcome])
                   /\ remote' = IF outcome = "created" THEN Put(remote, name, files[name])
                                ELSE remote
                   /\ IF outcome = "exception" /\ ~CatchesUploadError(variant)
                      THEN Raise("transport", "", 0) /\ UNCHANGED idx
                      ELSE idx' = idx + 1 /\ UNCHANGED << pc, err >>
    /\ UNCHANGED << batch, variant, calendars, files, existing_events, schedule_data,
                    ics_filenames, click, attempt, clickLog, nextUid, now, quits,
                    fetch, hist, page, otc, arrival >>

\* the upload loop ends and main() leaves its try block
UploadDone ==
    /\ pc = "upload"
    /\ idx > Len(ics_filenames)
    /\ pc' = "finally"
    /\ UNCHANGED << batch, variant, calendars, remote, files, existing_events, schedule_data,
                    ics_filenames, idx, click, attempt, clickLog, err, nextUid, now,
                    quits, fetch, uploads, hist, page, otc, arrival >>

Created == { uploads[i].name : i \in { j \in DOMAIN uploads : uploads[j].outcome = "created" } }

\* the run published every event it retained
PublishedAll ==
    /\ err.kind = "none"
    /\ variant # "sync"
    /\ \A n \in Range(ics_filenames) : n \in DOMAIN files => n \in Created

\* finally: driver.quit(); the process ends and the next run starts afresh
Quit ==
    /\ pc = "finally"
    /\ quits' = quits + 1
    /\ pc' = "idle"
    /\ hist' = IF PublishedAll
               THEN [valid |-> TRUE, schedule |-> schedule_data, index |-> existing_events,
                     published |-> KeysOf(files, Created)]
               ELSE NoHist
    /\ existing_events' = {} /\ schedule_data' = << >> /\ ics_filenames' = << >>
    /\ idx' = 0 /\ click' = 0 /\ attempt' = 0 /\ clickLog' = << >>
    /\ err' = NoErr /\ fetch' = "none" /\ uploads' = << >> /\ batch' = << >>
    /\ page' = NoPage /\ otc' = NoOtc /\ arrival' = "none"
    /\ UNCHANGED << variant, calendars, remote, files, nextUid, now >>

Next ==
    \/ StartRun
    \/ FetchRadicale
    \/ FetchNextcloud
    \/ LoginUser
    \/ SafeClickAttempt
    \/ LoginPassword
    \/ LoginTotp
    \/ LoginRedirect
    \/ Scrape
    \/ Create
    \/ Compare
    \/ UploadOpen
    \/ UploadStep
    \/ UploadDone
    \/ Quit

Spec == Init /\ [][Next]_vars

----------------------------------------------------------------------------
(* The same pipeline over documents with malformed parts.  The uid source  *)
(* has handed out values before, so that one run with events fits.         *)

InitExtract ==
    /\ variant \in { "sync", "nextcloud", "radicale" }
    /\ calendars \in (IF variant = "nextcloud" THEN RichListings ELSE { << >> })
    /\ remote \in InitialRemotes(variant)
    /\ files = << >>
    /\ pc = "idle"
    /\ existing_events = {}
    /\ schedule_data = << >>
    /\ ics_filenames = << >>
    /\ batch = << >>
    /\ idx = 0
    /\ click = 0
    /\ attempt = 0
    /\ clickLog = << >>
    /\ err = NoErr
    /\ nextUid = FirstUid + (MaxEvents - MaxShifts)
    /\ now = 1
    /\ quits = 0
    /\ fetch = "none"
    /\ uploads = << >>
    /\ hist = NoHist
    /\ page = NoPage
    /\ otc = NoOtc
    /\ arrival = "none"

ScrapeRich == ScrapeFrom(RichDocuments)

NextExtract ==
    \/ StartRun
    \/ FetchRadicale
    \/ FetchNextcloud
    \/ LoginUser
    \/ SafeClickAttempt
    \/ LoginPassword
    \/ LoginTotp
    \/ LoginRedirect
    \/ ScrapeRich
    \/ Create
    \/ Compare
    \/ UploadOpen
    \/ UploadStep
    \/ UploadDone
    \/ Quit

ExtractSpec == InitExtract /\ [][NextExtract]_vars

\* the process runs on: a statement that can be executed is executed, every
\* wait and every call returns or raises
FairExtractSpec == ExtractSpec /\ WF_vars(NextExtract)

----------------------------------------------------------------------------
(* Properties *)

\* the (start, end, summary) triple of a serialized event
Triple(comp) == << Prop(comp, "DTSTART").num, Prop(comp, "DTEND").num, SummaryOf(comp) >>

\* the names of this run's events that compare_and_handle_existing left on disk
Retained == { n \in Range(ics_filenames) : n \in DOMAIN files }

Attempted == { uploads[i].name : i \in DOMAIN uploads }

Reconciled == variant # "sync" /\ pc \in { "upload_open", "upload" }

\* C1: between runs, no two events of the remote store have the same
\* (start, end, summary), given that the store started that way.
C1_NoDuplicateKeys ==
    pc = "idle" =>
        \A n, m \in DOMAIN remote :
            (n # m /\ Parses(remote[n]) /\ Parses(remote[m])) => Triple(remote[n]) # Triple(remote[m])

\* C2: once reconciliation has run, a generated event's file is still on disk
\* exactly when its triple is no key of the index fetched for this run; every
\* upload attempt is for such an event; and a publish loop that ran to its end
\* has attempted every such event.
C2_ReconcilePartition ==
    /\ Reconciled =>
          \A n \in Range(ics_filenames) : (n \in DOMAIN files) <=> (Triple(batch[n]) \notin existing_events)
    /\ variant # "sync" =>
          \A n \in Attempted : n \in Range(ics_filenames) /\ Triple(batch[n]) \notin existing_events
    /\ (variant # "sync" /\ pc = "upload" /\ idx > Len(ics_filenames)) =>
          \A n \in Range(ics_filenames) : Triple(batch[n]) \notin existing_events => n \in Attempted

\* C2 witness: a reconciled batch with one event dropped and one event retained and uploaded
C2_Witness ==
    /\ variant # "sync" /\ pc = "upload" /\ idx > Len(ics_filenames)
    /\ \E n, m \in Range(ics_filenames) :
          /\ Triple(batch[n]) \in existing_events /\ n \notin DOMAIN files
          /\ Triple(batch[m]) \notin existing_events /\ m \in Created

\* C3: a run over the same schedule as the previous run, which published its
\* whole reconciled batch, with an index that holds the keys published then,
\* retains nothing and uploads nothing.
C3_SecondRunUploadsNothing ==
    ( /\ variant # "sync"
      /\ pc \in { "upload_open", "upload", "finally" }
      /\ hist.valid /\ hist.published # {}
      /\ schedule_data # << >> /\ schedule_data = hist.schedule
      /\ hist.published \subseteq existing_events )
    => (Retained = {} /\ uploads = << >>)

\* the same with an index that also still holds the keys the previous run found
IdempotentOnGrownIndex ==
    ( /\ variant # "sync"
      /\ pc \in { "upload_open", "upload", "finally" }
      /\ hist.valid
      /\ schedule_data = hist.schedule
      /\ (hist.index \cup hist.published) \subseteq existing_events )
    => (Retained = {} /\ uploads = << >>)

\* C4: after reconciliation, two generated events with the same (start, end,
\* summary) are both dropped or both retained whatever their uid and DTSTAMP,
\* and a generated event whose triple is that of an indexed remote event is dropped.
C4_KeyAloneDecides ==
    Reconciled =>
        /\ \A n, m \in Range(ics_filenames) :
              Triple(batch[n]) = Triple(batch[m]) => ((n \in DOMAIN files) <=> (m \in DOMAIN files))
        /\ \A n \in Range(ics_filenames) :
              Triple(batch[n]) \in existing_events => n \notin DOMAIN files

\* C4 witness: two generated events of one triple with different uid and DTSTAMP,
\* dropped against a remote event of that triple with yet another uid and DTSTAMP
C4_Witness ==
    /\ Reconciled
    /\ \E n, m \in Range(ics_filenames) : \E r \in DOMAIN remote :
          /\ n # m
          /\ Parses(remote[r])
          /\ Triple(batch[n]) = Triple(batch[m]) /\ Triple(batch[n]) = Triple(remote[r])
          /\ Prop(batch[n], "UID").num # Prop(batch[m], "UID").num
          /\ Prop(batch[n], "DTSTAMP").num # Prop(batch[m], "DTSTAMP").num
          /\ Prop(batch[n], "UID").num # Prop(remote[r], "UID").num
          /\ Prop(batch[n], "DTSTAMP").num # Prop(remote[r], "DTSTAMP").num
          /\ Triple(batch[n]) \in existing_events
          /\ n \notin DOMAIN files /\ m \notin DOMAIN files

\* C5: no step removes or changes a resource of the remote store, and the
\* resource an upload writes does not exist before the upload.
C5_RemoteOnlyGrows ==
    [][ /\ \A n \in DOMAIN remote : n \in DOMAIN remote' /\ remote'[n] = remote[n]
        /\ \A n \in (DOMAIN remote') \ (DOMAIN remote) : n \in Range(ics_filenames)
        /\ (pc = "upload" /\ uploads' # uploads) => ics_filenames[idx] \notin DOMAIN remote ]_vars

\* C5 witness: a store that held an event before the runs now also holds an uploaded one
C5_Witness ==
    \E n, m \in DOMAIN remote : n < FirstUid /\ m >= FirstUid /\ m \in Created

\* C6: a run whose fetch of the existing events did not succeed (error status,
\* exception, or a listed resource that could not be fetched) uploads nothing.
C6_FetchFailureIsFatal ==
    fetch \in { "error_status", "partial", "raised" } => uploads = << >>

\* C7: when no collection matches the target name the fetch ends in a
\* CalendarNotFound error, the run is over and nothing is uploaded.
C7_CalendarNotFoundIsFatal ==
    fetch = "no_calendar" =>
        (pc = "finally" /\ err.kind = "calendar_not_found" /\ uploads = << >>)

\* what does hold of a run without a matching collection: no upload is attempted
NoCalendarNoUpload ==
    (variant = "nextcloud" /\ FindCalendar(calendars) = 0) => (uploads = << >> /\ pc # "upload")

\* C8: the fetch never ends in a parse error, and a fetch whose transport
\* succeeded returns the keys of exactly the remote events that parse.
C8_ParseFailureOmitted ==
    /\ err.kind # "parse"
    /\ (pc = "login_user" /\ fetch = "ok") => existing_events = KeysOf(remote, DOMAIN remote)

\* the same for sync_nextcloud.py alone
ParseFailureOmittedNextcloud == variant = "nextcloud" => C8_ParseFailureOmitted

\* C9: when the publish step is over, every event handed to it has had
\* exactly one upload attempt, whatever the earlier attempts came to.
C9_EveryEventAttemptedOnce ==
    (pc = "finally" /\ uploads # << >>) =>
        \A n \in Range(ics_filenames) :
            Sends(variant, n, files) =>
                Cardinality({ i \in DOMAIN uploads : uploads[i].name = n }) = 1

\* the same for sync_nextcloud.py alone
EveryEventAttemptedOnceNextcloud == variant = "nextcloud" => C9_EveryEventAttemptedOnce

ClickReturned == pc \in { "login_pass", "login_totp", "login_redirect" }

NoClick == \A i \in DOMAIN clickLog : clickLog[i] # "clicked"

\* the parts of C10 about the number of attempts and the normal return
SafeClickAttemptsBounded ==
    /\ attempt <= Retries /\ Len(clickLog) = attempt
    /\ ClickReturned =>
          /\ clickLog # << >>
          /\ clickLog[Len(clickLog)] = "clicked"
          /\ \A i \in 1..(Len(clickLog) - 1) : clickLog[i] = "failed"
    /\ err.kind = "exhausted" =>
          /\ Len(clickLog) = Retries /\ NoClick
          /\ err.locator = Locator(click) /\ err.attempts = Retries

\* C10: safe_click makes at most Retries attempts, returns only right after a
\* successful attempt, and after Retries failed attempts ends in the
\* exhaustion error that carries the locator and the number of attempts.
C10_SafeClickBounded ==
    /\ SafeClickAttemptsBounded
    /\ (Len(clickLog) = Retries /\ NoClick) =>
          (pc = "finally" /\ err = [kind |-> "exhausted", locator |-> Locator(click), attempts |-> Retries])

\* C11: a failure of the diagnostic read in safe_click's handler never reaches
\* the caller: no run ends in the diagnostic error, and a failed attempt whose
\* diagnostic read raised is followed by the remaining attempts.
C11_DiagnosticNeverMasks ==
    /\ err.kind # "diagnostic"
    /\ \A i \in DOMAIN clickLog :
          (clickLog[i] = "failed_diag" /\ i < Retries) => (pc = "click" \/ Len(clickLog) > i)

\* C12: the one-time code typed into the otc field was made in the time step
\* that is current when it is typed.
C12_CodeMadeWhenTyped == otc.typed => otc.made = otc.entered

Scraped == pc \in { "create", "compare", "upload_open", "upload" } \/ (pc = "finally" /\ err.kind \in { "none", "normalize", "transport" })

\* C14: the sequence scrape_schedule returned holds no two equal records.
C14_NoDuplicateRecords ==
    Scraped =>
        \A i, j \in DOMAIN schedule_data : i # j => schedule_data[i] # schedule_data[j]

\* the same for sync_nextcloud.py alone, where it holds; there the two markups
\* of one shift give one record
NoDuplicateRecordsNextcloud == variant = "nextcloud" => C14_NoDuplicateRecords

\* a shift block with its time element, its details element and a range of
\* two well-formed clock times
WellFormed(b) ==
    /\ b.hasTime /\ b.hasDetails
    /\ Len(b.time.parts) = 2
    /\ ClockValid(b.time.parts[1]) /\ ClockValid(b.time.parts[2])

\* whether a record of schedule_data is the record of this cell
RecordOf(v, rec, cell) ==
    IF v = "nextcloud"
    THEN /\ rec.date = cell.date
         /\ rec.start_time = cell.shift.time.parts[1]
         /\ rec.end_time = cell.shift.time.parts[2]
         /\ rec.details = cell.shift.details
    ELSE /\ rec.date = (IF v = "sync" THEN CutGmt(cell.date) ELSE cell.date)
         /\ rec.time_range = StripAnnotation(cell.shift.time)
         /\ rec.details = cell.shift.details

\* C15: on a rendered page scrape_schedule does not raise, and its output holds
\* the record of every well-formed shift of every day, whatever the other
\* shifts of the page are.
C15_FailuresAreIsolated ==
    /\ (pc = "finally" /\ err.kind = "scrape") => ~page.loaded
    /\ (Scraped /\ page.loaded) =>
          LET cells == Selected(variant, Flatten(page.days))
          IN  \A c \in DOMAIN cells :
                  WellFormed(cells[c].shift) =>
                      \E i \in DOMAIN schedule_data : RecordOf(variant, schedule_data[i], cells[c])

\* the same for sync_nextcloud.py alone, where it holds
FailuresAreIsolatedNextcloud == variant = "nextcloud" => C15_FailuresAreIsolated

\* C16: when the page never shows the list, scrape_schedule does not raise but
\* returns the empty sequence, and the run writes no file and uploads nothing.
C16_TimeoutReturnsEmpty ==
    /\ ~(pc = "finally" /\ err.kind = "scrape" /\ ~page.loaded)
    /\ (Scraped /\ ~page.loaded) =>
          (schedule_data = << >> /\ batch = << >> /\ ics_filenames = << >> /\ uploads = << >>)

\* the same for sync_nextcloud.py alone, where it holds
TimeoutReturnsEmptyNextcloud == variant = "nextcloud" => C16_TimeoutReturnsEmpty

\* C17: every event a run generates starts before it ends.
C17_StartBeforeEnd ==
    \A n \in DOMAIN batch : Prop(batch[n], "DTSTART").num < Prop(batch[n], "DTEND").num

\* C18: in sync_nextcloud.py and sync_radicale.py, create_individual_ics_files
\* is not left by an exception because of a date label, and the files it
\* writes are those of the entries whose label has exactly four tokens (and
\* whose time span parses).
C18_LabelOfFourTokens ==
    (variant # "sync") =>
       /\ (pc = "finally" /\ err.kind = "normalize") =>
              \E i \in DOMAIN schedule_data :
                  DateOk(schedule_data[i].date) /\ ~EntryOk(variant, schedule_data[i])
       /\ pc \in { "compare", "upload_open", "upload" } =>
              Cardinality(DOMAIN batch) =
                  Cardinality({ i \in DOMAIN schedule_data :
                                  Len(schedule_data[i].date) = 4 /\ EntryOk(variant, schedule_data[i]) })

\* the part of C18 that holds in sync_nextcloud.py: a label of fewer than four
\* tokens costs its own entry only
ShortLabelSkippedNextcloud ==
    (variant = "nextcloud") =>
       /\ err.kind # "normalize"
       /\ pc \in { "compare", "upload_open", "upload" } =>
              Cardinality(DOMAIN batch) =
                  Cardinality({ i \in DOMAIN schedule_data : EntryOk(variant, schedule_data[i]) })

\* C19: a time text that is no range of two clock times never ends the run:
\* create_individual_ics_files is not left by an exception because of it.
C19_TimeSpanMismatchIsolated ==
    (pc = "finally" /\ err.kind = "normalize") =>
        \A i \in DOMAIN schedule_data :
            DateOk(schedule_data[i].date) => EntryOk(variant, schedule_data[i])

\* the same for sync_nextcloud.py alone, where scrape_schedule skips the shift
TimeSpanMismatchSkippedNextcloud ==
    (variant = "nextcloud") =>
       /\ C19_TimeSpanMismatchIsolated
       /\ (Scraped /\ page.loaded) =>
              \A i \in DOMAIN schedule_data :
                  ClockLike(schedule_data[i].start_time) /\ ClockLike(schedule_data[i].end_time)

\* C20: the fetch and the upload of sync_nextcloud.py select the same
\* collection: the first of the listing whose lower-cased name is the
\* lower-cased target, none when there is no such name; among Work, Personal,
\* Birthdays that is Personal.
C20_CaseInsensitiveSelection ==
    (variant = "nextcloud") =>
       /\ FindCalendar(calendars) = UploadCalendar(calendars)
       /\ calendars = << "Work", "Personal", "Birthdays" >> => FindCalendar(calendars) = 2
       /\ \A i \in DOMAIN calendars :
             (FindCalendar(calendars) = i) <=>
                 /\ Lower(calendars[i]) = "personal"
                 /\ \A j \in 1..(i - 1) : Lower(calendars[j]) # "personal"
       /\ (fetch = "ok") => FindCalendar(calendars) # 0
       /\ (uploads # << >>) => UploadCalendar(calendars) # 0

\* C20 witness: among Work, Personal, Birthdays the fetch found the collection
\* and the upload created an event in it
C20_Witness ==
    /\ variant = "nextcloud"
    /\ calendars = << "Work", "Personal", "Birthdays" >>
    /\ fetch = "ok"
    /\ Created # {}

\* two names match: both steps take the first
TwoMatchesReached ==
    /\ variant = "nextcloud"
    /\ calendars = << "Birthdays", "PERSONAL", "Personal" >>
    /\ fetch = "ok" /\ Created # {}

\* C21: in every execution of main() driver.quit() is called at most once, no
\* stage of the run is in progress once it has been called, and every run that
\* has started, whatever its stages come to, reaches the call.
C21_SessionReleasedOnce ==
    /\ [](quits <= 1)
    /\ [](quits = 1 => pc = "idle")
    /\ [][(pc # "idle" /\ pc' = "idle") => (pc = "finally" /\ quits = 0 /\ quits' = 1)]_vars
    /\ ((pc # "idle") ~> (pc = "idle" /\ quits = 1))

\* C21 witness: driver.quit() has been called in a run that an exception ended
\* (the run left no file to publish and yet did not complete)
C21_Witness ==
    /\ quits = 1 /\ pc = "idle"
    /\ variant # "sync" /\ ~hist.valid
    /\ DOMAIN files = {}

\* the place of a position of main() in the order of its stages
StageRank(p, c) ==
    CASE p = "idle" -> 0
      [] p = "fetch" -> 1
      [] p = "login_user" -> 2
      [] p = "click" -> 2 * c + 1
      [] p = "login_pass" -> 4
      [] p = "login_totp" -> 6
      [] p = "login_redirect" -> 8
      [] p = "scrape" -> 9
      [] p = "create" -> 10
      [] p = "compare" -> 11
      [] p = "upload_open" -> 12
      [] p = "upload" -> 13
      [] p = "finally" -> 14

\* C22: once a click of the login has spent its retries, the run is over:
\* nothing is extracted, no file is written, nothing is uploaded; and within a
\* run main() only moves forward through its stages, none is entered twice.
C22_ExhaustionIsFatal ==
    /\ [](err.kind = "exhausted" =>
            /\ pc = "finally"
            /\ page = NoPage /\ schedule_data = << >>
            /\ batch = << >> /\ ics_filenames = << >> /\ uploads = << >>)
    /\ [][(pc' # pc /\ pc' # "idle") => StageRank(pc', click') > StageRank(pc, click)]_vars

\* C22 witness: the third click of the login has spent its five attempts
C22_Witness ==
    /\ err.kind = "exhausted" /\ click = 3
    /\ Len(clickLog) = Retries /\ NoClick

\* C23: the files a run lists are files it wrote itself; every upload of the
\* run sends a listed file; and no step of the run changes or removes a file
\* of the directory that is not on the run's list.
C23_OnlyThisRunsFiles ==
    /\ [](\A i \in DOMAIN uploads : uploads[i].name \in Range(ics_filenames))
    /\ [][(ics_filenames' # ics_filenames) =>
              Range(ics_filenames') \cap DOMAIN files = {}]_vars
    /\ [][\A n \in (DOMAIN files) \ Range(ics_filenames) :
              n \in DOMAIN files' /\ files'[n] = files[n]]_vars
    /\ [][(remote' # remote) =>
              \E n \in Range(ics_filenames) \cap DOMAIN files :
                  remote' = Put(remote, n, files[n])]_vars

\* C23 witness: a run has published a file of its own while a file of an
\* earlier run, whose event is in the index the run fetched, still lies in the
\* directory
C23_Witness ==
    /\ pc = "finally" /\ Created # {}
    /\ \E n \in (DOMAIN files) \ Range(ics_filenames) :
          \E k \in existing_events : Matches(files[n], k)

====
